---- MODULE Spec2Model ----
(***************************************************************************)
(* The Podcast Engine: the audio segment store and stitcher                *)
(* (tools/chatterbox_tool.py, tools/stitch_tool.py), the script parser and *)
(* the two pipeline drivers (streamlit_app.py, main.py).                   *)
(*                                                                         *)
(* Texts and file names are sequences of characters, each character held   *)
(* as its code point: sorted(..., key=lambda p: p.name) compares them.     *)
(***************************************************************************)
EXTENDS Integers, Sequences, FiniteSets, TLC

VARIABLES
    dirs,       \* the directories that exist
    fs,         \* path -> file content, for every file that exists
    listing,    \* the segment_*.wav paths of fs, in the order the filesystem
                \* enumerates them
    call,       \* the last tool call: [op, dir, out]
    res,        \* the dict the last stitch_audio_segments call returned
    reads,      \* the paths the last stitch opened for reading
    appended,   \* the paths whose frames the last stitch wrote, in the order written
    restitched, \* the last call repeated the stitch call right before it
    tts         \* the dict the last generate_audio_segment call returned
                \* (res and tts hold the last tool call's dict only)

VARIABLES
    ptext,    \* the text handed to parse_script_json
    pfence,          \* the fence line the text was also wrapped in
    pplain,         \* what parse_script_json made of ptext
    pfenced   \* what it made of the wrapped text

VARIABLES
    driver,         \* which driver runs: "ui", "cli", "batch", or "none" yet
    pc,             \* where the driver is
    nevents,        \* events the runner has yielded
    last_event,     \* the event the "async for" loop holds: [author, text, final]
    author_at,      \* the sub-agent the SequentialAgent has reached
    cli,            \* main.py: run_podcast_pipeline's stage and final_response, and
                    \* what main got from it
    results,        \* the results dict shared with the UI thread
    session_state,  \* session.state in the session service
    sync_failed,    \* get_session raised
    script_entries, \* what the loop iterates over
    turn_idx,       \* the position enumerate() has reached
    generated_files,
    audio_errors,
    tts_calls,      \* the calls of generate_audio_segment so far
    stitch_calls,   \* how often the driver called stitch_audio_segments
    exc,            \* the exception that left the driver
    batch,          \* the dict generate_podcast_audio returned
    ui              \* st.session_state

stitchVars == <<dirs, fs, listing, call, res, reads, appended, restitched, tts>>
parseVars == <<ptext, pfence, pplain, pfenced>>
pipeVars ==
    <<driver, pc, nevents, last_event, author_at, cli, results, session_state, sync_failed,
      script_entries, turn_idx, generated_files, audio_errors, tts_calls,
      stitch_calls, exc, batch, ui>>
vars == <<stitchVars, parseVars, pipeVars>>

-----------------------------------------------------------------------------
(* Bounds *)

MaxFiles == 2       \* segment files in the tree at any time
MaxGen == 1         \* times one path is (re)written by generate_audio_segment
MaxTextLen == 4     \* characters of a text handed to parse_script_json
MaxEvents == 3      \* events the runner yields in one run

-----------------------------------------------------------------------------
(* Characters and file names *)

SegmentPrefix == <<115, 101, 103, 109, 101, 110, 116, 95>>      \* "segment_"
WavSuffix == <<46, 119, 97, 118>>                               \* ".wav"
Underscore == <<95>>                                            \* "_"
FinalPodcastName ==                                             \* "final_podcast.wav"
    <<102, 105, 110, 97, 108, 95, 112, 111, 100, 99, 97, 115, 116>> \o WavSuffix
HostSpeaker == <<72, 111, 115, 116>>                            \* "Host"
ExpertSpeaker == <<69, 120, 112, 101, 114, 116>>                \* "Expert"
Speakers == {HostSpeaker, ExpertSpeaker}

\* str.lower() on the ASCII letters
Lower(s) == [i \in 1..Len(s) |-> IF s[i] >= 65 /\ s[i] <= 90 THEN s[i] + 32 ELSE s[i]]

RECURSIVE Digits(_)
\* str(n) for n >= 0, as code points
Digits(n) == IF n < 10 THEN <<48 + n>> ELSE Digits(n \div 10) \o <<48 + (n % 10)>>

RECURSIVE ZeroPad(_, _)
ZeroPad(s, w) == IF Len(s) >= w THEN s ELSE ZeroPad(<<48>> \o s, w)

PadWidth == 3

\* f"{segment_index:03d}"
Format03d(n) == ZeroPad(Digits(n), PadWidth)

\* f"segment_{segment_index:03d}_{speaker.lower()}.wav"
SegmentFileName(idx, speaker) ==
    SegmentPrefix \o Format03d(idx) \o Underscore \o Lower(speaker) \o WavSuffix

StartsWith(s, p) == Len(s) >= Len(p) /\ SubSeq(s, 1, Len(p)) = p
EndsWith(s, p) == Len(s) >= Len(p) /\ SubSeq(s, Len(s) - Len(p) + 1, Len(s)) = p

\* fnmatch of a file name against "segment_*.wav"
MatchesSegmentPattern(name) ==
    /\ Len(name) >= Len(SegmentPrefix) + Len(WavSuffix)
    /\ StartsWith(name, SegmentPrefix)
    /\ EndsWith(name, WavSuffix)

RECURSIVE StrLess(_, _)
\* Python's s < t on strings: lexicographic on code points, a proper prefix first
StrLess(s, t) ==
    IF t = <<>> THEN FALSE
    ELSE IF s = <<>> THEN TRUE
    ELSE IF s[1] # t[1] THEN s[1] < t[1]
    ELSE StrLess(Tail(s), Tail(t))

IsDigit(c) == c >= 48 /\ c <= 57

RECURSIVE LeadingNumber(_, _)
LeadingNumber(s, acc) ==
    IF s = <<>> \/ ~IsDigit(s[1]) THEN acc
    ELSE LeadingNumber(Tail(s), acc * 10 + (s[1] - 48))

\* the index embedded in a segment file name: the digits after "segment_"
EmbeddedIndex(name) == LeadingNumber(SubSeq(name, Len(SegmentPrefix) + 1, Len(name)), 0)

-----------------------------------------------------------------------------
(* The directory tree and the files in it *)

RootDir == "output"
SubDir == "output/earlier"
Dirs == {RootDir, SubDir}

\* d is output_dir itself or a directory below it
InTree(d, top) == d = top \/ top = RootDir

\* the (segment_index, speaker) pairs segments are synthesized for
SegmentTurns ==
    { [idx |-> 2, speaker |-> HostSpeaker],
      [idx |-> 999, speaker |-> ExpertSpeaker],
      [idx |-> 1000, speaker |-> HostSpeaker] }

SegmentNames == { SegmentFileName(t.idx, t.speaker) : t \in SegmentTurns }

\* where segments are kept: output/ itself, and one earlier run's directory
\* below it that holds the one segment 2
SegmentPaths ==
    [dir : {RootDir}, name : SegmentNames]
        \cup {[dir |-> SubDir, name |-> SegmentFileName(2, HostSpeaker)]}

\* output_filename: the default, or a name that matches the segment pattern
OutputNames == {FinalPodcastName, SegmentFileName(999, ExpertSpeaker)}

NoFrames == <<>>

\* what an empty (0 byte) file is to wave.open(..., 'rb'): it raises EOFError
EmptyFile ==
    [ok |-> FALSE, nch |-> 0, width |-> 0, rate |-> 0, nframes |-> 0,
     frames |-> NoFrames, gen |-> 0]

\* one block of frames: the file it was synthesized into, and which writing of it
Block(p, gen) == [path |-> p, gen |-> gen]

\* the PCM file torchaudio.save writes: 1 channel, int16, model.sr
TtsFile(p, gen) ==
    [ok |-> TRUE, nch |-> 1, width |-> 2, rate |-> 24000, nframes |-> 480,
     frames |-> <<Block(p, gen)>>, gen |-> gen]

\* the segment files that may lie in the tree when a run starts: left by an
\* earlier run, or damaged, or foreign
LeftoverFiles(p) ==
    { TtsFile(p, 0),
      [ok |-> TRUE, nch |-> 2, width |-> 1, rate |-> 16000, nframes |-> 208,
       frames |-> <<Block(p, 0)>>, gen |-> 0],
      [ok |-> TRUE, nch |-> 0, width |-> 2, rate |-> 24000, nframes |-> 480,
       frames |-> <<Block(p, 0)>>, gen |-> 0],
      [ok |-> TRUE, nch |-> 1, width |-> 2, rate |-> 0, nframes |-> 480,
       frames |-> <<Block(p, 0)>>, gen |-> 0],
      [ok |-> FALSE, nch |-> 1, width |-> 2, rate |-> 24000, nframes |-> 480,
       frames |-> <<Block(p, 0)>>, gen |-> 0] }

\* every order in which the filesystem may enumerate the paths of S
Enumerations(S) ==
    { s \in [1..Cardinality(S) -> S] : \A i, j \in 1..Cardinality(S) : s[i] = s[j] => i = j }

SegmentFilesOf(f) == { p \in DOMAIN f : MatchesSegmentPattern(p.name) }

-----------------------------------------------------------------------------
(* tools/stitch_tool.py: stitch_audio_segments *)

RECURSIVE InsertByName(_, _)
\* x goes behind every element whose name is not greater: the sort is stable
InsertByName(x, s) ==
    IF s = <<>> THEN <<x>>
    ELSE IF StrLess(x.name, s[1].name) THEN <<x>> \o s
    ELSE <<s[1]>> \o InsertByName(x, Tail(s))

RECURSIVE SortedByName(_)
\* sorted(all_wavs, key=lambda p: p.name)
SortedByName(s) ==
    IF s = <<>> THEN <<>>
    ELSE InsertByName(s[Len(s)], SortedByName(SubSeq(s, 1, Len(s) - 1)))

\* glob instead of rglob: the directory itself only
AllWavsTopOnly(ls, d) ==
    SelectSeq(ls, LAMBDA p : p.dir = d /\ MatchesSegmentPattern(p.name))

\* list(output_path.rglob("segment_*.wav")), in the filesystem's order
AllWavs(ls, d) ==
    SelectSeq(ls, LAMBDA p : InTree(p.dir, d) /\ MatchesSegmentPattern(p.name))

\* line 65 left out: the destination stays among the inputs
KeepOutput(segs, final) == segs

\* [f for f in segment_files if f.absolute() != final_output_path.absolute()]
ExcludeOutput(segs, final) == SelectSeq(segs, LAMBDA p : p # final)

\* Wave_write.setparams accepts these parameters
WriterAccepts(c) == c.nch >= 1 /\ c.width >= 1 /\ c.width <= 4 /\ c.rate > 0

\* no generate_audio_segment call was the last call
NoTts == [status |-> "none", error |-> "", speaker |-> <<>>, segment_index |-> 0,
          file_path |-> [dir |-> RootDir, name |-> <<>>]]

\* the loop's variables before the first segment
LoopStart ==
    [params_set |-> FALSE, nch |-> 0, width |-> 0, rate |-> 0,
     frames |-> NoFrames, bytes |-> 0, ticks |-> 0, successful |-> <<>>,
     reads |-> {}, appended |-> <<>>]

\* "if not params_set" left out: every valid segment sets the parameters anew
StitchStepLastWins(st, p, c) ==
    LET opened == [st EXCEPT !.reads = @ \cup {p}]
        fixed == [opened EXCEPT !.params_set = TRUE, !.nch = c.nch,
                                !.width = c.width, !.rate = c.rate]
        written == [fixed EXCEPT !.frames = @ \o c.frames,
                                 !.bytes = @ + c.nframes * c.nch * c.width,
                                 !.appended = Append(@, p)]
    IN  IF ~c.ok THEN opened
        ELSE IF c.nch = 0 THEN opened
        ELSE IF ~WriterAccepts(c) THEN opened
        ELSE [written EXCEPT !.ticks = @ + c.nframes * (48000 \div c.rate),
                             !.successful = Append(@, p)]

\* the "continue" of line 82 left out: a segment with 0 channels goes on
StitchStepNoChannelSkip(st, p, c) ==
    LET opened == [st EXCEPT !.reads = @ \cup {p}]
        fixed == IF st.params_set THEN opened
                 ELSE [opened EXCEPT !.params_set = TRUE, !.nch = c.nch,
                                     !.width = c.width, !.rate = c.rate]
        written == [fixed EXCEPT !.frames = @ \o c.frames,
                                 !.bytes = @ + c.nframes * c.nch * c.width,
                                 !.appended = Append(@, p)]
    IN  IF ~c.ok THEN opened
        ELSE IF ~st.params_set /\ ~WriterAccepts(c) THEN opened
        ELSE IF c.rate = 0 THEN written
        ELSE [written EXCEPT !.ticks = @ + c.nframes * (48000 \div c.rate),
                             !.successful = Append(@, p)]

\* one iteration of "for file_path in segment_files", c the file at file_path
StitchStep(st, p, c) ==
    LET opened == [st EXCEPT !.reads = @ \cup {p}]
        fixed == IF st.params_set THEN opened
                 ELSE [opened EXCEPT !.params_set = TRUE, !.nch = c.nch,
                                     !.width = c.width, !.rate = c.rate]
        written == [fixed EXCEPT !.frames = @ \o c.frames,
                                 !.bytes = @ + c.nframes * c.nch * c.width,
                                 !.appended = Append(@, p)]
    IN  IF ~c.ok THEN opened                               \* wave.open raises
        ELSE IF c.nch = 0 THEN opened                      \* skipped, 0 channels
        ELSE IF ~st.params_set /\ ~WriterAccepts(c) THEN opened   \* setparams raises
        ELSE IF c.rate = 0 THEN written                    \* ZeroDivisionError
        ELSE [written EXCEPT !.ticks = @ + c.nframes * (48000 \div c.rate),
                             !.successful = Append(@, p)]

RECURSIVE StitchLoop(_, _, _)
StitchLoop(st, segs, f) ==
    IF segs = <<>> THEN st
    ELSE StitchLoop(StitchStep(st, segs[1], f[segs[1]]), Tail(segs), f)

\* round(total_duration_seconds, 2), in hundredths of a second; the total is
\* held in 1/48000 s, which every modelled frame rate divides
RoundedCs(ticks) == (ticks * 100 + 24000) \div 48000

NoResult ==
    [status |-> "none", error |-> "", output_path |-> <<>>,
     total_duration_cs |-> 0, num_segments |-> 0, segment_files |-> <<>>]

\* no outer except: what is raised inside the function leaves it
ErrorResultUncaught(e) ==
    [NoResult EXCEPT !.status = IF e = "internal" THEN "raised" ELSE "error", !.error = e]

ErrorResult(e) == [NoResult EXCEPT !.status = "error", !.error = e]

\* the file Wave_write leaves at final_output_path when it is closed
WrittenFile(st) ==
    IF ~st.params_set THEN EmptyFile
    ELSE [ok |-> TRUE, nch |-> st.nch, width |-> st.width, rate |-> st.rate,
          nframes |-> st.bytes \div (st.nch * st.width), frames |-> st.frames,
          gen |-> 0]

\* the path output/final_podcast.wav, held by a directory
FinalAsDir == "output/final_podcast.wav"

\* wave.open(final_output_path, 'wb') raises: a directory lies at the path
Unwritable(ds, final) ==
    final = [dir |-> RootDir, name |-> FinalPodcastName] /\ FinalAsDir \in ds

\* stitch_audio_segments(output_dir=d, output_filename=out) on the tree (ds, f, ls):
\* the dict returned, whether the destination was opened, the file left there and
\* the paths read
StitchAudioSegments(ds, f, ls, d, out) ==
    LET segment_files == SortedByName(AllWavs(ls, d))
        final == [dir |-> d, name |-> out]
        segs == ExcludeOutput(segment_files, final)
        \* wave.open(final_output_path, 'wb') truncates the destination
        opened == [p \in DOMAIN f \cup {final} |-> IF p = final THEN EmptyFile ELSE f[p]]
        st == IF d \notin ds \/ segment_files = <<>> THEN LoopStart
              ELSE StitchLoop(LoopStart, segs, opened)
    IN  IF d \notin ds THEN
            [result |-> ErrorResult("no_directory"), wrote |-> FALSE,
             final |-> final, file |-> EmptyFile, reads |-> {}, appended |-> <<>>]
        ELSE IF segment_files = <<>> THEN
            [result |-> ErrorResult("no_segments"), wrote |-> FALSE,
             final |-> final, file |-> EmptyFile, reads |-> {}, appended |-> <<>>]
        ELSE IF Unwritable(ds, final) THEN
            \* IsADirectoryError, turned into the error dict by line 115
            [result |-> ErrorResult("internal"), wrote |-> FALSE,
             final |-> final, file |-> EmptyFile, reads |-> {}, appended |-> <<>>]
        ELSE IF ~st.params_set THEN
            \* the return of line 102 leaves the with block, whose close() raises
            \* "# channels not specified"; line 115 turns that into the error dict
            [result |-> ErrorResult("internal"), wrote |-> TRUE,
             final |-> final, file |-> WrittenFile(st), reads |-> st.reads,
             appended |-> st.appended]
        ELSE
            [result |-> [status |-> "success", error |-> "", output_path |-> final,
                         total_duration_cs |-> RoundedCs(st.ticks),
                         num_segments |-> Len(st.successful),
                         segment_files |-> st.successful],
             wrote |-> TRUE, final |-> final, file |-> WrittenFile(st),
             reads |-> st.reads, appended |-> st.appended]

\* ls with the new path p at position i
InsertAt(ls, i, p) == SubSeq(ls, 1, i - 1) \o <<p>> \o SubSeq(ls, i, Len(ls))

\* the listing after a file was written at p: a new path enters it anywhere (the
\* listing holds the paths rglob("segment_*.wav") can return, no others)
ListingsAfterWrite(f, ls, p) ==
    IF p \in DOMAIN f \/ ~MatchesSegmentPattern(p.name) THEN {ls}
    ELSE { InsertAt(ls, i, p) : i \in 1..(Len(ls) + 1) }

\* the file at p replaced by c, which keeps count of the writings of p
FileWritten(f, p, c) ==
    [q \in DOMAIN f \cup {p} |->
        IF q # p THEN f[q]
        ELSE IF p \in DOMAIN f THEN [c EXCEPT !.gen = f[p].gen] ELSE c]

\* a caller (the producer agent, a script) calls the tool
Stitch(d, out) ==
    \E r \in {StitchAudioSegments(dirs, fs, listing, d, out)} :
        /\ res' = r.result
        /\ reads' = r.reads
        /\ appended' = r.appended
        /\ call' = [op |-> "stitch", dir |-> d, out |-> out]
        /\ restitched' = (call = [op |-> "stitch", dir |-> d, out |-> out])
        /\ IF r.wrote
           THEN /\ fs' = FileWritten(fs, r.final, r.file)
                /\ listing' \in ListingsAfterWrite(fs, listing, r.final)
           ELSE UNCHANGED <<fs, listing>>
        /\ tts' = NoTts
        /\ UNCHANGED dirs

-----------------------------------------------------------------------------
(* tools/chatterbox_tool.py: generate_audio_segment *)

\* what the TTS capability does in one call: it works, or torchaudio cannot be
\* imported, or loading the model or model.generate raises
TtsOutcomes == {"ok", "import_error", "tts_error"}

NextGen(f, p) == IF p \in DOMAIN f THEN f[p].gen + 1 ELSE 1

\* output_path.mkdir(parents=True, exist_ok=True)
MkdirParents(ds, d) == ds \cup {d, RootDir}

\* generate_audio_segment(text, speaker, output_dir=d, segment_index=idx) on the
\* tree (ds, f): the dict returned, the directories after it, and the file written
GenerateAudioSegment(ds, f, d, idx, speaker, outcome) ==
    LET file_path == [dir |-> d, name |-> SegmentFileName(idx, speaker)]
        failed == [NoTts EXCEPT !.status = "error", !.error = outcome,
                                !.speaker = speaker, !.segment_index = idx]
    IN  IF outcome = "import_error" THEN
            [result |-> failed, dirs |-> ds, wrote |-> FALSE,
             path |-> file_path, file |-> EmptyFile]
        ELSE IF outcome = "tts_error" THEN
            [result |-> failed, dirs |-> MkdirParents(ds, d), wrote |-> FALSE,
             path |-> file_path, file |-> EmptyFile]
        ELSE
            [result |-> [status |-> "success", error |-> "", speaker |-> speaker,
                         segment_index |-> idx, file_path |-> file_path],
             dirs |-> MkdirParents(ds, d), wrote |-> TRUE, path |-> file_path,
             file |-> TtsFile(file_path, NextGen(f, file_path))]

\* the tree after the file c was saved at p
SavedTree(f, p, c) == [q \in DOMAIN f \cup {p} |-> IF q = p THEN c ELSE f[q]]

\* a caller (the producer agent, a script) calls the tool
Persist(d, turn, outcome) ==
    \E r \in {GenerateAudioSegment(dirs, fs, d, turn.idx, turn.speaker, outcome)} :
        /\ tts' = r.result
        /\ dirs' = r.dirs
        /\ call' = [op |-> "generate", dir |-> d, out |-> <<>>]
        /\ IF r.wrote
           THEN /\ fs' = SavedTree(fs, r.path, r.file)
                /\ listing' \in ListingsAfterWrite(fs, listing, r.path)
           ELSE UNCHANGED <<fs, listing>>
        /\ res' = NoResult
        /\ reads' = {}
        /\ appended' = <<>>
        /\ restitched' = FALSE

-----------------------------------------------------------------------------
(* Texts: str.strip, str.split, str.join, json.loads *)

\* the characters str.strip() removes: space, \t, \n, \v, \f, \r
IsSpace(c) == c \in {32, 9, 10, 11, 12, 13}

RECURSIVE LStrip(_)
LStrip(t) == IF t # <<>> /\ IsSpace(t[1]) THEN LStrip(Tail(t)) ELSE t

RECURSIVE RStrip(_)
RStrip(t) ==
    IF t # <<>> /\ IsSpace(t[Len(t)]) THEN RStrip(SubSeq(t, 1, Len(t) - 1)) ELSE t

\* text.strip()
Strip(t) == RStrip(LStrip(t))

RECURSIVE SplitLines(_, _)
\* text.split("\n"), cur the line collected so far
SplitLines(t, cur) ==
    IF t = <<>> THEN <<cur>>
    ELSE IF t[1] = 10 THEN <<cur>> \o SplitLines(Tail(t), <<>>)
    ELSE SplitLines(Tail(t), Append(cur, t[1]))

RECURSIVE JoinLines(_)
\* "\n".join(lines)
JoinLines(ls) ==
    IF ls = <<>> THEN <<>>
    ELSE IF Len(ls) = 1 THEN ls[1]
    ELSE ls[1] \o <<10>> \o JoinLines(Tail(ls))

\* The values json.loads returns: a str, a list, a dict (its items in insertion
\* order) or None.  Numbers, true, false and backslash escapes are not modelled:
\* no modelled text holds them.
JStr(chars) == [t |-> "str", v |-> chars]
JArr(items) == [t |-> "list", v |-> items]
JObj(members) == [t |-> "dict", v |-> members]
JNone == [t |-> "None", v |-> <<>>]

\* json.JSONDecodeError(msg, doc, pos)
JsonFail(msg, i) == [ok |-> FALSE, val |-> JNone, pos |-> i, msg |-> msg]
JsonDone(val, i) == [ok |-> TRUE, val |-> val, pos |-> i, msg |-> ""]

\* the whitespace the json scanner skips: space, \t, \n, \r
IsJsonSpace(c) == c \in {32, 9, 10, 13}

RECURSIVE SkipSpace(_, _)
SkipSpace(t, i) == IF i <= Len(t) /\ IsJsonSpace(t[i]) THEN SkipSpace(t, i + 1) ELSE i

RECURSIVE ScanString(_, _, _, _)
\* the string whose opening quote is at start, read from i on
ScanString(t, start, i, acc) ==
    IF i > Len(t) THEN JsonFail("Unterminated string starting at", start)
    ELSE IF t[i] = 34 THEN JsonDone(JStr(acc), i + 1)
    ELSE IF t[i] < 32 THEN JsonFail("Invalid control character at", i)
    ELSE ScanString(t, start, i + 1, Append(acc, t[i]))

\* d[k] = x on a dict held as its items
SetMember(members, k, x) ==
    IF \E j \in 1..Len(members) : members[j].k = k
    THEN [j \in 1..Len(members) |->
            IF members[j].k = k THEN [k |-> k, x |-> x] ELSE members[j]]
    ELSE Append(members, [k |-> k, x |-> x])

RECURSIVE ScanValue(_, _)
RECURSIVE ScanArray(_, _, _)
RECURSIVE ScanObject(_, _, _)

\* scan_once(s, idx)
ScanValue(t, i) ==
    IF i > Len(t) THEN JsonFail("Expecting value", i)
    ELSE IF t[i] = 34 THEN ScanString(t, i, i + 1, <<>>)
    ELSE IF t[i] = 91 THEN
        LET j == SkipSpace(t, i + 1)
        IN  IF j <= Len(t) /\ t[j] = 93 THEN JsonDone(JArr(<<>>), j + 1)
            ELSE ScanArray(t, j, <<>>)
    ELSE IF t[i] = 123 THEN
        LET j == SkipSpace(t, i + 1)
        IN  IF j <= Len(t) /\ t[j] = 125 THEN JsonDone(JObj(<<>>), j + 1)
            ELSE IF j > Len(t) \/ t[j] # 34
                THEN JsonFail("Expecting property name enclosed in double quotes", j)
            ELSE ScanObject(t, j, <<>>)
    ELSE IF i + 3 <= Len(t) /\ SubSeq(t, i, i + 3) = <<110, 117, 108, 108>>
        THEN JsonDone(JNone, i + 4)
    ELSE JsonFail("Expecting value", i)

\* JSONArray, from the item that starts at i
ScanArray(t, i, items) ==
    LET r == ScanValue(t, i)
        j == SkipSpace(t, r.pos)
    IN  IF ~r.ok THEN r
        ELSE IF j <= Len(t) /\ t[j] = 93 THEN JsonDone(JArr(Append(items, r.val)), j + 1)
        ELSE IF j > Len(t) \/ t[j] # 44 THEN JsonFail("Expecting ',' delimiter", j)
        ELSE ScanArray(t, SkipSpace(t, j + 1), Append(items, r.val))

\* JSONObject, from the key whose opening quote is at i
ScanObject(t, i, members) ==
    LET key == ScanString(t, i, i + 1, <<>>)
        c == SkipSpace(t, key.pos)
        r == ScanValue(t, SkipSpace(t, c + 1))
        j == SkipSpace(t, r.pos)
        n == SkipSpace(t, j + 1)
    IN  IF ~key.ok THEN key
        ELSE IF c > Len(t) \/ t[c] # 58 THEN JsonFail("Expecting ':' delimiter", c)
        ELSE IF ~r.ok THEN r
        ELSE IF j <= Len(t) /\ t[j] = 125
            THEN JsonDone(JObj(SetMember(members, key.val.v, r.val)), j + 1)
        ELSE IF j > Len(t) \/ t[j] # 44 THEN JsonFail("Expecting ',' delimiter", j)
        ELSE IF n > Len(t) \/ t[n] # 34
            THEN JsonFail("Expecting property name enclosed in double quotes", n)
        ELSE ScanObject(t, n, SetMember(members, key.val.v, r.val))

\* what json.loads(text) returns (ok, val) or raises (msg, pos, with pos counted
\* from 0 as JSONDecodeError does)
JsonLoads(t) ==
    LET r == ScanValue(t, SkipSpace(t, 1))
        end == SkipSpace(t, r.pos)
    IN  IF ~r.ok THEN [ok |-> FALSE, val |-> JNone, msg |-> r.msg, pos |-> r.pos - 1]
        ELSE IF end <= Len(t)
            THEN [ok |-> FALSE, val |-> JNone, msg |-> "Extra data", pos |-> end - 1]
        ELSE [ok |-> TRUE, val |-> r.val, msg |-> "", pos |-> 0]

-----------------------------------------------------------------------------
(* streamlit_app.py: parse_script_json *)

Fence == <<96, 96, 96>>                                     \* "```"
JsonFence == Fence \o <<106, 115, 111, 110>>                \* "```json"

\* parse_script_json was not called
NotParsed == [ok |-> FALSE, val |-> JNone, msg |-> "not called", pos |-> 0]

\* the fences are not looked for: json.loads(script_text.strip())
ParseScriptJsonNoFence(script_text) == JsonLoads(Strip(script_text))

\* parse_script_json(script_text)
ParseScriptJson(script_text) ==
    LET text == Strip(script_text)
        lines == SelectSeq(SplitLines(text, <<>>),
                           LAMBDA l : ~StartsWith(Strip(l), Fence))
    IN  IF StartsWith(text, Fence) THEN JsonLoads(JoinLines(lines))
        ELSE JsonLoads(text)

\* no parse_script_json call is under way
ParseIdle ==
    /\ ptext = <<>>
    /\ pfence = <<>>
    /\ pplain = NotParsed
    /\ pfenced = NotParsed

-----------------------------------------------------------------------------
(* The text stages: the agents of agents/podcast_pipeline.py and their replies *)

\* agents/podcast_pipeline.py: name="PodcastPipelineAgent"
PipelineName ==
    <<80, 111, 100, 99, 97, 115, 116, 80, 105, 112, 101, 108, 105, 110, 101, 65, 103,
      101, 110, 116>>

\* agents/researcher.py: name="ResearcherAgent"
ResearcherName ==
    <<82, 101, 115, 101, 97, 114, 99, 104, 101, 114, 65, 103, 101, 110, 116>>

\* agents/summarizer.py: name="SummarizerAgent"
SummarizerName ==
    <<83, 117, 109, 109, 97, 114, 105, 122, 101, 114, 65, 103, 101, 110, 116>>

\* agents/scriptwriter.py: name="ScriptwriterAgent"
ScriptwriterName ==
    <<83, 99, 114, 105, 112, 116, 119, 114, 105, 116, 101, 114, 65, 103, 101,
      110, 116>>

\* "Researcher"
ResearcherTag ==
    <<82, 101, 115, 101, 97, 114, 99, 104, 101, 114>>

\* "Summarizer"
SummarizerTag ==
    <<83, 117, 109, 109, 97, 114, 105, 122, 101, 114>>

\* "Scriptwriter"
ScriptwriterTag ==
    <<83, 99, 114, 105, 112, 116, 119, 114, 105, 116, 101, 114>>

\* "<think>"
ThinkOpen ==
    <<60, 116, 104, 105, 110, 107, 62>>

\* "</think>"
ThinkClose ==
    <<60, 47, 116, 104, 105, 110, 107, 62>>

\* a reply that is reasoning only: "<think>x</think>\n"
ThinkOnly ==
    <<60, 116, 104, 105, 110, 107, 62, 120, 60, 47, 116, 104, 105, 110, 107,
      62, 10>>

\* "<think>x</think>\nfacts"
ResearchReply ==
    <<60, 116, 104, 105, 110, 107, 62, 120, 60, 47, 116, 104, 105, 110, 107,
      62, 10, 102, 97, 99, 116, 115>>

\* "gist\n"
SummaryReply ==
    <<103, 105, 115, 116, 10>>

\* [{"speaker":"Host","text":"a"},{"text":" "},{"speaker":"Expert","text":"b"}]
ScriptThreeTurns ==
    <<91, 123, 34, 115, 112, 101, 97, 107, 101, 114, 34, 58, 34, 72, 111,
      115, 116, 34, 44, 34, 116, 101, 120, 116, 34, 58, 34, 97, 34, 125, 44,
      123, 34, 116, 101, 120, 116, 34, 58, 34, 32, 34, 125, 44, 123, 34, 115,
      112, 101, 97, 107, 101, 114, 34, 58, 34, 69, 120, 112, 101, 114, 116,
      34, 44, 34, 116, 101, 120, 116, 34, 58, 34, 98, 34, 125, 93>>

\* <think>x</think>```json\n[{"speaker":"Expert","text":""},{"text":"c"}]\n```
ScriptFenced ==
    <<60, 116, 104, 105, 110, 107, 62, 120, 60, 47, 116, 104, 105, 110, 107,
      62, 96, 96, 96, 106, 115, 111, 110, 10, 91, 123, 34, 115, 112, 101, 97,
      107, 101, 114, 34, 58, 34, 69, 120, 112, 101, 114, 116, 34, 44, 34,
      116, 101, 120, 116, 34, 58, 34, 34, 125, 44, 123, 34, 116, 101, 120,
      116, 34, 58, 34, 99, 34, 125, 93, 10, 96, 96, 96>>

\* a reply cut off: [{"speaker":"Host"
ScriptCutOff ==
    <<91, 123, 34, 115, 112, 101, 97, 107, 101, 114, 34, 58, 34, 72, 111,
      115, 116, 34>>

\* null
ScriptNull ==
    <<110, 117, 108, 108>>

\* [{"text":null}]
ScriptNullText ==
    <<91, 123, 34, 116, 101, 120, 116, 34, 58, 110, 117, 108, 108, 125, 93>>

\* [{"speaker":"Host","text":""},{"text":" "}]: every turn is blank
ScriptAllBlank ==
    <<91, 123, 34, 115, 112, 101, 97, 107, 101, 114, 34, 58, 34, 72, 111,
      115, 116, 34, 44, 34, 116, 101, 120, 116, 34, 58, 34, 34, 125, 44, 123,
      34, 116, 101, 120, 116, 34, 58, 34, 32, 34, 125, 93>>

\* "speaker"
SpeakerKey ==
    <<115, 112, 101, 97, 107, 101, 114>>

\* "text"
TextKey ==
    <<116, 101, 120, 116>>

\* "Producer"
ProducerTag == <<80, 114, 111, 100, 117, 99, 101, 114>>

RECURSIVE FindSub(_, _, _)
\* the first position from i on at which sub occurs in t, 0 when there is none
FindSub(t, sub, i) ==
    IF i + Len(sub) - 1 > Len(t) THEN 0
    ELSE IF SubSeq(t, i, i + Len(sub) - 1) = sub THEN i
    ELSE FindSub(t, sub, i + 1)

\* sub in t
Contains(t, sub) == FindSub(t, sub, 1) # 0

RECURSIVE RemoveThink(_)
\* re.sub(r'<think>.*?</think>', '', text_val, flags=re.DOTALL)
RemoveThink(t) ==
    LET a == FindSub(t, ThinkOpen, 1)
        b == IF a = 0 THEN 0 ELSE FindSub(t, ThinkClose, a + Len(ThinkOpen))
    IN  IF a = 0 \/ b = 0 THEN t
        ELSE SubSeq(t, 1, a - 1)
                \o RemoveThink(SubSeq(t, b + Len(ThinkClose), Len(t)))

\* what the scriptwriter may reply
ScriptReplies ==
    {ScriptThreeTurns, ScriptFenced, ScriptCutOff, ScriptNull, ScriptNullText,
     ScriptAllBlank, ThinkOnly}

\* the summarizer is listed before the researcher
AgentsSummarizerFirst ==
    << [name |-> SummarizerName, output_key |-> "summary",
        replies |-> {ThinkOnly, SummaryReply}],
       [name |-> ResearcherName, output_key |-> "research_data",
        replies |-> {ThinkOnly, ResearchReply}],
       [name |-> ScriptwriterName, output_key |-> "script",
        replies |-> ScriptReplies] >>

\* sub_agents, in the order the SequentialAgent runs them: the agent's name, its
\* output_key and the texts it may reply with
Agents ==
    << [name |-> ResearcherName, output_key |-> "research_data",
        replies |-> {ThinkOnly, ResearchReply}],
       [name |-> SummarizerName, output_key |-> "summary",
        replies |-> {ThinkOnly, SummaryReply}],
       [name |-> ScriptwriterName, output_key |-> "script",
        replies |-> ScriptReplies] >>

\* the chain ends in a plain else: any other author's text is taken as the script
StageKeyElseScript(author) ==
    IF Contains(author, ResearcherTag) THEN "research_data"
    ELSE IF Contains(author, SummarizerTag) THEN "summary"
    ELSE "script"

\* the key of results the if/elif chain of lines 265-282 assigns for an author
StageKey(author) ==
    IF Contains(author, ResearcherTag) THEN "research_data"
    ELSE IF Contains(author, SummarizerTag) THEN "summary"
    ELSE IF Contains(author, ScriptwriterTag) THEN "script"
    ELSE ""

NoError == [kind |-> "", msg |-> "", pos |-> 0, errors |-> <<>>]
NoPath == [dir |-> "", name |-> <<>>]

\* results = {"thoughts": []}: no stage key is set (a text that is unset, None
\* or "" is <<>>: the code tests all three with "not")
NoResults ==
    [research_data |-> <<>>, summary |-> <<>>, script |-> <<>>,
     audio_error |-> NoError, final_podcast |-> NoPath, audio_files |-> <<>>,
     status |-> "", error |-> ""]

\* session.state of the session create_session returns
NoSession == [research_data |-> <<>>, summary |-> <<>>, script |-> <<>>]

\* the text is appended to what the key holds
CaptureEventAppend(rs, author, text) ==
    LET clean_text == Strip(RemoveThink(text))
        key == StageKey(author)
    IN  IF author = <<>> \/ text = <<>> \/ clean_text = <<>> \/ key = "" THEN rs
        ELSE [rs EXCEPT ![key] = @ \o clean_text]

\* the body of "async for event in runner.run_async(...)" of run_pipeline_async,
\* for an event with one part whose text is text
CaptureEvent(rs, author, text) ==
    LET clean_text == Strip(RemoveThink(text))
        key == StageKey(author)
    IN  IF author = <<>> \/ text = <<>> \/ clean_text = <<>> \/ key = "" THEN rs
        ELSE [rs EXCEPT ![key] = clean_text]

\* the if/elif chain of run_podcast_pipeline on event.author
TrackStage(stage, author) ==
    IF author = <<>> THEN stage
    ELSE IF Contains(author, ResearcherTag) /\ stage = 1 THEN stage
    ELSE IF Contains(author, SummarizerTag) /\ stage = 1 THEN 2
    ELSE IF Contains(author, ScriptwriterTag) /\ stage = 2 THEN 3
    ELSE IF Contains(author, ProducerTag) /\ stage = 3 THEN 4
    ELSE stage

\* the session store after an agent's reply: the framework saves the reply under
\* the agent's output_key when the event carries it as a state change
SessionSaved(ss, agent, reply, saved) ==
    IF saved /\ reply # <<>> THEN [ss EXCEPT ![agent.output_key] = reply] ELSE ss

\* the session store is not consulted
FallbackNever(rs, ss, key) == rs

\* the "not results.get(key)" test left out: the store's value always wins
FallbackOverwrite(rs, ss, key) ==
    IF ss[key] # <<>> THEN [rs EXCEPT ![key] = ss[key]] ELSE rs

\* the fallback of lines 294-300, for one key
Fallback(rs, ss, key) ==
    IF rs[key] = <<>> /\ ss[key] # <<>> THEN [rs EXCEPT ![key] = ss[key]] ELSE rs

\* the try block of lines 286-300: session.state is read into results
Reconciled(rs, ss) ==
    Fallback(Fallback(Fallback(rs, ss, "research_data"), ss, "summary"), ss, "script")

\* what "for idx, entry in enumerate(script_entries)" iterates over
Entries(val) ==
    IF val.t = "list" THEN val.v
    ELSE IF val.t = "str" THEN [i \in 1..Len(val.v) |-> JStr(<<val.v[i]>>)]
    ELSE [i \in 1..Len(val.v) |-> JStr(val.v[i].k)]

\* entry.get(k, default), entry a dict held as its items
DictGet(members, k, default) ==
    IF \E j \in 1..Len(members) : members[j].k = k
    THEN members[CHOOSE j \in 1..Len(members) : members[j].k = k].x
    ELSE default

\* "if not text.strip(): continue" left out: a blank turn is synthesized too
TurnOfNoSkip(entry) ==
    LET speaker == DictGet(entry.v, SpeakerKey, JStr(HostSpeaker))
        text == DictGet(entry.v, TextKey, JStr(<<>>))
    IN  IF entry.t # "dict" THEN [do |-> "raise", speaker |-> JNone, text |-> <<>>]
        ELSE IF text.t # "str" THEN [do |-> "raise", speaker |-> speaker, text |-> <<>>]
        ELSE [do |-> "synthesize", speaker |-> speaker, text |-> text.v]

\* what one pass of the loop body does before it calls generate_audio_segment:
\* it raises AttributeError, it skips the turn, or it goes on to synthesize
TurnOf(entry) ==
    LET speaker == DictGet(entry.v, SpeakerKey, JStr(HostSpeaker))
        text == DictGet(entry.v, TextKey, JStr(<<>>))
    IN  IF entry.t # "dict" THEN [do |-> "raise", speaker |-> JNone, text |-> <<>>]
        ELSE IF text.t # "str" THEN [do |-> "raise", speaker |-> speaker, text |-> <<>>]
        ELSE IF Strip(text.v) = <<>> THEN [do |-> "skip", speaker |-> speaker, text |-> text.v]
        ELSE [do |-> "synthesize", speaker |-> speaker, text |-> text.v]

-----------------------------------------------------------------------------
(* The drivers: streamlit_app.py (the button of main, run_pipeline_in_thread, *)
(* run_pipeline_async), main.py (run_podcast_pipeline) and                  *)
(* chatterbox_tool.py (generate_podcast_audio)                              *)

\* stage and final_response of run_podcast_pipeline
\* main.py's main has not got anything from run_podcast_pipeline
NoCliResult == [returned |-> FALSE, final_response |-> <<>>]

NoCli ==
    [stage |-> 0, final_response |-> <<>>, exit_code |-> -1, error |-> "",
     result |-> NoCliResult]

\* the dict generate_podcast_audio returns
NoBatch == [status |-> "", audio_files |-> <<>>, total_segments |-> 0, errors |-> <<>>]

\* st.session_state as init_session_state leaves it; thoughts is a list of its
\* own ("own") or the list object of results["thoughts"] ("shared")
NoUi ==
    [research_data |-> <<>>, summary |-> <<>>, script |-> <<>>,
     audio_files |-> <<>>, final_podcast |-> NoPath, pipeline_error |-> NoError,
     pipeline_complete |-> FALSE, pipeline_running |-> FALSE, current_stage |-> 0,
     thoughts |-> "own"]

\* no event was yielded, or the loop over the events is over
NoEvent == [author |-> <<>>, text |-> <<>>, final |-> FALSE]

\* no driver was started
PipeIdle ==
    /\ driver = "none"
    /\ pc = "idle"
    /\ nevents = 0
    /\ last_event = NoEvent
    /\ author_at = 1
    /\ cli = NoCli
    /\ results = NoResults
    /\ session_state = NoSession
    /\ sync_failed = FALSE
    /\ script_entries = <<>>
    /\ turn_idx = 0
    /\ generated_files = <<>>
    /\ audio_errors = <<>>
    /\ tts_calls = <<>>
    /\ stitch_calls = 0
    /\ exc = ""
    /\ batch = NoBatch
    /\ ui = NoUi

\* streamlit_app.py main: the "Generate Podcast" button starts the thread
ClickGenerate ==
    /\ pc = "idle"
    /\ driver' = "ui"
    /\ pc' = "events"
    /\ ui' = [NoUi EXCEPT !.pipeline_running = TRUE, !.current_stage = 1]
    /\ results' = NoResults
    /\ UNCHANGED <<nevents, last_event, author_at, cli, session_state, sync_failed,
                   script_entries, turn_idx, generated_files, audio_errors, tts_calls,
                   stitch_calls, exc, batch>>
    /\ UNCHANGED stitchVars
    /\ UNCHANGED parseVars

\* main.py: run_podcast_pipeline is called
RunPodcastPipeline ==
    /\ pc = "idle"
    /\ driver' = "cli"
    /\ pc' = "events"
    /\ cli' = [NoCli EXCEPT !.stage = 1]
    /\ UNCHANGED <<nevents, last_event, author_at, results, session_state, sync_failed,
                   script_entries, turn_idx, generated_files, audio_errors, tts_calls,
                   stitch_calls, exc, batch, ui>>
    /\ UNCHANGED stitchVars
    /\ UNCHANGED parseVars

\* generate_podcast_audio(script) is called (the voice references exist)
GeneratePodcastAudio(script) ==
    /\ pc = "idle"
    /\ driver' = "batch"
    /\ pc' = "loop"
    /\ script_entries' = script
    /\ UNCHANGED <<nevents, last_event, author_at, cli, results, session_state, sync_failed,
                   turn_idx, generated_files, audio_errors, tts_calls, stitch_calls,
                   exc, batch, ui>>
    /\ UNCHANGED stitchVars
    /\ UNCHANGED parseVars

\* the text of the event's part: the reply, or none (a part without text)
PartText(reply, has_text) == IF has_text THEN reply ELSE <<>>

\* the runner yields an event of the a-th agent, which replied with reply: the
\* event has one part, it is final or partial, and the session service may have
\* saved the reply
RunnerEvent(a, reply, has_text, final, saved) ==
    /\ pc = "events"
    /\ nevents < MaxEvents
    /\ a >= author_at
    /\ nevents' = nevents + 1
    /\ last_event' = [author |-> Agents[a].name, text |-> PartText(reply, has_text),
                      final |-> final]
    /\ author_at' = a
    /\ session_state' = SessionSaved(session_state, Agents[a], reply, saved)
    /\ IF driver = "ui"
       THEN /\ results' = CaptureEvent(results, Agents[a].name, PartText(reply, has_text))
            /\ UNCHANGED cli
       ELSE /\ cli' = [cli EXCEPT
                        !.stage = TrackStage(cli.stage, Agents[a].name),
                        !.final_response = IF final THEN PartText(reply, has_text)
                                           ELSE cli.final_response]
            /\ UNCHANGED results
    /\ UNCHANGED <<driver, pc, sync_failed, script_entries, turn_idx, generated_files,
                   audio_errors, tts_calls, stitch_calls, exc, batch, ui>>
    /\ UNCHANGED stitchVars
    /\ UNCHANGED parseVars

\* the runner yields an event that none of the three sub-agents authored: the
\* SequentialAgent's own, with one text part
OtherEvent(reply, final) ==
    /\ pc = "events"
    /\ nevents < MaxEvents
    /\ nevents' = nevents + 1
    /\ last_event' = [author |-> PipelineName, text |-> reply, final |-> final]
    /\ IF driver = "ui"
       THEN /\ results' = CaptureEvent(results, PipelineName, reply)
            /\ UNCHANGED cli
       ELSE /\ cli' = [cli EXCEPT
                        !.stage = TrackStage(cli.stage, PipelineName),
                        !.final_response = IF final THEN reply ELSE cli.final_response]
            /\ UNCHANGED results
    /\ UNCHANGED <<driver, pc, author_at, session_state, sync_failed, script_entries,
                   turn_idx, generated_files, audio_errors, tts_calls, stitch_calls,
                   exc, batch, ui>>
    /\ UNCHANGED stitchVars
    /\ UNCHANGED parseVars

\* the event stream ends
RunnerEnds ==
    /\ pc = "events"
    /\ pc' = IF driver = "ui" THEN "reconcile" ELSE "stitch"
    /\ last_event' = NoEvent
    /\ UNCHANGED <<driver, nevents, author_at, cli, results, session_state,
                   sync_failed, script_entries, turn_idx, generated_files, audio_errors,
                   tts_calls, stitch_calls, exc, batch, ui>>
    /\ UNCHANGED stitchVars
    /\ UNCHANGED parseVars

\* runner.run_async raises (the model server cannot be reached, ...)
RunnerRaises ==
    /\ pc = "events"
    /\ pc' = "raised"
    /\ exc' = "runner"
    /\ last_event' = NoEvent
    /\ UNCHANGED <<driver, nevents, author_at, cli, results, session_state,
                   sync_failed, script_entries, turn_idx, generated_files, audio_errors,
                   tts_calls, stitch_calls, batch, ui>>
    /\ UNCHANGED stitchVars
    /\ UNCHANGED parseVars

\* run_pipeline_async, lines 286-303: get_session returns the session, or raises
Reconcile(read_ok) ==
    /\ driver = "ui"
    /\ pc = "reconcile"
    /\ pc' = "audio"
    /\ sync_failed' = ~read_ok
    /\ results' = IF read_ok THEN Reconciled(results, session_state) ELSE results
    /\ UNCHANGED <<driver, nevents, last_event, author_at, cli, session_state, script_entries,
                   turn_idx, generated_files, audio_errors, tts_calls, stitch_calls,
                   exc, batch, ui>>
    /\ UNCHANGED stitchVars
    /\ UNCHANGED parseVars

\* the error is reported without what the parser said
ScriptFormatErrorBare(r) == [NoError EXCEPT !.kind = "parse"]

\* f"Failed to parse script JSON: {e}", e the JSONDecodeError of r
ScriptFormatError(r) == [NoError EXCEPT !.kind = "parse", !.msg = r.msg, !.pos = r.pos]

\* run_pipeline_async, lines 305-327: the script is looked up and parsed
ParseScript ==
    /\ driver = "ui"
    /\ pc = "audio"
    /\ \E r \in {ParseScriptJson(results.script)} :
        IF results.script = <<>> THEN
            /\ results' = [results EXCEPT !.audio_error = [NoError EXCEPT !.kind = "no_script"]]
            /\ pc' = "returned"
            /\ UNCHANGED script_entries
        ELSE IF ~r.ok THEN
            \* json.JSONDecodeError
            /\ results' = [results EXCEPT !.audio_error = ScriptFormatError(r)]
            /\ pc' = "returned"
            /\ UNCHANGED script_entries
        ELSE IF r.val.t = "None" THEN
            \* len(None) raises TypeError
            /\ results' = [results EXCEPT !.audio_error =
                              [NoError EXCEPT !.kind = "parse", !.msg = "TypeError"]]
            /\ pc' = "returned"
            /\ UNCHANGED script_entries
        ELSE
            /\ script_entries' = Entries(r.val)
            /\ pc' = "loop"
            /\ UNCHANGED results
    /\ UNCHANGED <<driver, nevents, last_event, author_at, cli, session_state, sync_failed, turn_idx,
                   generated_files, audio_errors, tts_calls, stitch_calls, exc,
                   batch, ui>>
    /\ UNCHANGED stitchVars
    /\ UNCHANGED parseVars

\* the message appended to audio_errors (run_pipeline_async) or errors
\* (generate_podcast_audio, which leaves the speaker out)
TurnError(d, i, speaker, error) ==
    IF d = "batch" THEN [segment_index |-> i, error |-> error]
    ELSE [segment_index |-> i, speaker |-> speaker, error |-> error]

\* a failed turn is dropped: nothing is appended to the errors
CollectedFilesOnly(d, files, errors, i, speaker, result) ==
    IF result.status = "success"
    THEN [generated_files |-> Append(files, result.file_path), audio_errors |-> errors]
    ELSE [generated_files |-> files, audio_errors |-> errors]

\* the if/else on result["status"] that ends the loop body
Collected(d, files, errors, i, speaker, result) ==
    IF result.status = "success"
    THEN [generated_files |-> Append(files, result.file_path), audio_errors |-> errors]
    ELSE [generated_files |-> files,
          audio_errors |-> Append(errors, TurnError(d, i, speaker, result.error))]

\* one pass of "for idx, entry in enumerate(script_entries)":
\* run_pipeline_async lines 329-356, generate_podcast_audio lines 278-295
SynthesizeTurn(outcome) ==
    /\ pc = "loop"
    /\ turn_idx < Len(script_entries)
    /\ \E turn \in {TurnOf(script_entries[turn_idx + 1])} :
        IF turn.do = "raise" THEN
            /\ pc' = "raised"
            /\ exc' = "AttributeError"
            /\ UNCHANGED <<turn_idx, generated_files, audio_errors, tts_calls>>
            /\ UNCHANGED stitchVars
        ELSE IF turn.do = "skip" THEN
            /\ turn_idx' = turn_idx + 1
            /\ UNCHANGED <<pc, exc, generated_files, audio_errors, tts_calls>>
            /\ UNCHANGED stitchVars
        ELSE
            \* a speaker that is no str makes speaker.lower() raise inside the try
            /\ Persist(RootDir, [idx |-> turn_idx, speaker |-> turn.speaker.v],
                       IF turn.speaker.t = "str" THEN outcome ELSE "tts_error")
            /\ tts_calls' = Append(tts_calls, [segment_index |-> turn_idx,
                                               speaker |-> turn.speaker.v,
                                               text |-> turn.text])
            /\ \E c \in {Collected(driver, generated_files, audio_errors, turn_idx,
                                    turn.speaker.v, tts')} :
                    /\ generated_files' = c.generated_files
                    /\ audio_errors' = c.audio_errors
            /\ turn_idx' = turn_idx + 1
            /\ UNCHANGED <<pc, exc>>
    /\ UNCHANGED <<driver, nevents, last_event, author_at, cli, results, session_state,
                   sync_failed, script_entries, stitch_calls, batch, ui>>
    /\ UNCHANGED parseVars

\* results["_audio_error"] after line 359
SegmentErrors(rs, errors) ==
    IF errors = <<>> THEN rs
    ELSE [rs EXCEPT !.audio_error = [NoError EXCEPT !.kind = "segments", !.errors = errors]]

\* run_pipeline_async, lines 358-382: the errors are reported, the segments stitched
StitchStage ==
    /\ driver = "ui"
    /\ pc = "loop"
    /\ turn_idx = Len(script_entries)
    /\ pc' = "returned"
    /\ IF generated_files # <<>>
       THEN /\ Stitch(RootDir, FinalPodcastName)
            /\ stitch_calls' = stitch_calls + 1
            /\ results' =
                IF res'.status = "success"
                THEN [SegmentErrors(results, audio_errors) EXCEPT
                        !.final_podcast = res'.output_path,
                        !.audio_files = generated_files]
                ELSE [results EXCEPT !.audio_error =
                        [NoError EXCEPT !.kind = "stitch", !.msg = res'.error]]
       ELSE /\ results' = SegmentErrors(results, audio_errors)
            /\ UNCHANGED stitch_calls
            /\ UNCHANGED stitchVars
    /\ UNCHANGED <<driver, nevents, last_event, author_at, cli, session_state, sync_failed,
                   script_entries, turn_idx, generated_files, audio_errors, tts_calls,
                   exc, batch, ui>>
    /\ UNCHANGED parseVars

\* generate_podcast_audio, lines 297-310
ReturnBatch ==
    /\ driver = "batch"
    /\ pc = "loop"
    /\ turn_idx = Len(script_entries)
    /\ pc' = "returned"
    /\ batch' = [status |-> IF audio_errors = <<>> THEN "success"
                            ELSE IF generated_files # <<>> THEN "partial"
                            ELSE "error",
                 audio_files |-> generated_files,
                 total_segments |-> Len(generated_files),
                 errors |-> audio_errors]
    /\ UNCHANGED <<driver, nevents, last_event, author_at, cli, results, session_state,
                   sync_failed, script_entries, turn_idx, generated_files, audio_errors,
                   tts_calls, stitch_calls, exc, ui>>
    /\ UNCHANGED stitchVars
    /\ UNCHANGED parseVars

\* run_podcast_pipeline, lines 103-127: the post-processing stitch
CliStitch ==
    /\ driver = "cli"
    /\ pc = "stitch"
    /\ pc' = "returned"
    /\ Stitch(RootDir, FinalPodcastName)
    /\ stitch_calls' = stitch_calls + 1
    /\ UNCHANGED <<driver, nevents, last_event, author_at, cli, results, session_state,
                   sync_failed, script_entries, turn_idx, generated_files, audio_errors,
                   tts_calls, exc, batch, ui>>
    /\ UNCHANGED parseVars

\* the user presses Ctrl-C while run_podcast_pipeline waits for the next event or
\* is about to stitch: KeyboardInterrupt leaves asyncio.run
CliCancel ==
    /\ driver = "cli"
    /\ pc \in {"events", "stitch"}
    /\ pc' = "raised"
    /\ exc' = "KeyboardInterrupt"
    /\ last_event' = NoEvent
    /\ UNCHANGED <<driver, nevents, author_at, cli, results, session_state,
                   sync_failed, script_entries, turn_idx, generated_files, audio_errors,
                   tts_calls, stitch_calls, batch, ui>>
    /\ UNCHANGED stitchVars
    /\ UNCHANGED parseVars

\* what main has of the run when asyncio.run returned the dict
CliReturned(c) ==
    [c EXCEPT !.exit_code = 0,
              !.result = [returned |-> TRUE, final_response |-> c.final_response]]

\* what main has of the run when asyncio.run raised e: the message it prints
CliFailed(c, e) == [c EXCEPT !.exit_code = 1, !.error = e]

\* main.py main, lines 163-173: asyncio.run returns the dict or raises
CliExit ==
    /\ driver = "cli"
    /\ pc \in {"returned", "raised"}
    /\ pc' = "exited"
    /\ cli' = IF pc = "returned" THEN CliReturned(cli) ELSE CliFailed(cli, exc)
    /\ UNCHANGED <<driver, nevents, last_event, author_at, results, session_state, sync_failed,
                   script_entries, turn_idx, generated_files, audio_errors, tts_calls,
                   stitch_calls, exc, batch, ui>>
    /\ UNCHANGED stitchVars
    /\ UNCHANGED parseVars

\* thread.is_alive(): run_pipeline_in_thread has not returned
IsAlive(p) == p \in {"events", "reconcile", "audio", "loop", "returned", "raised"}

\* streamlit_app.py main, lines 490-497: one pass of the polling loop, with
\* thoughts in the list
Poll ==
    /\ driver = "ui"
    /\ IsAlive(pc)
    /\ ui.thoughts = "own"
    /\ ui' = [ui EXCEPT !.thoughts = "shared"]
    /\ UNCHANGED <<pc, nevents, last_event, author_at, cli, results, session_state,
                   sync_failed, script_entries, turn_idx, generated_files, audio_errors,
                   tts_calls, stitch_calls, exc, batch, driver>>
    /\ UNCHANGED stitchVars
    /\ UNCHANGED parseVars

\* run_pipeline_in_thread, lines 400-407: the coroutine returned or raised
ThreadEnds ==
    /\ driver = "ui"
    /\ pc \in {"returned", "raised"}
    /\ pc' = "done"
    /\ results' = IF pc = "returned" THEN [results EXCEPT !.status = "complete"]
                  ELSE [results EXCEPT !.status = "error", !.error = exc]
    /\ UNCHANGED <<driver, nevents, last_event, author_at, cli, session_state, sync_failed,
                   script_entries, turn_idx, generated_files, audio_errors, tts_calls,
                   stitch_calls, exc, batch, ui>>
    /\ UNCHANGED stitchVars
    /\ UNCHANGED parseVars

\* streamlit_app.py main, lines 502-527: the results go to st.session_state
Transferred(u, rs) ==
    LET copied == [u EXCEPT
            !.research_data = IF rs.research_data # <<>> THEN rs.research_data ELSE @,
            !.summary = IF rs.summary # <<>> THEN rs.summary ELSE @,
            !.script = IF rs.script # <<>> THEN rs.script ELSE @,
            !.audio_files = IF rs.audio_files # <<>> THEN rs.audio_files ELSE @,
            !.final_podcast = IF rs.final_podcast # NoPath THEN rs.final_podcast ELSE @,
            !.pipeline_running = FALSE]
    IN  IF rs.status = "error"
        THEN [copied EXCEPT !.pipeline_error = [NoError EXCEPT !.kind = "exception",
                                                               !.msg = rs.error],
                            !.current_stage = 0]
        ELSE [copied EXCEPT !.pipeline_complete = TRUE, !.current_stage = 6,
                            !.pipeline_error = IF rs.audio_error # NoError
                                               THEN rs.audio_error ELSE @]

\* the copy is made without waiting for the thread to end
TransferEarly ==
    /\ driver = "ui"
    /\ pc \in {"returned", "done"}
    /\ pc' = "shown"
    /\ ui' = Transferred(ui, results)
    /\ UNCHANGED <<driver, nevents, last_event, author_at, cli, results, session_state,
                   sync_failed, script_entries, turn_idx, generated_files, audio_errors,
                   tts_calls, stitch_calls, exc, batch>>
    /\ UNCHANGED stitchVars
    /\ UNCHANGED parseVars

Transfer ==
    /\ driver = "ui"
    /\ pc = "done"
    /\ pc' = "shown"
    /\ ui' = Transferred(ui, results)
    /\ UNCHANGED <<driver, nevents, last_event, author_at, cli, results, session_state,
                   sync_failed, script_entries, turn_idx, generated_files, audio_errors,
                   tts_calls, stitch_calls, exc, batch>>
    /\ UNCHANGED stitchVars
    /\ UNCHANGED parseVars

\* the trees the drivers start on: no output directory yet, or the output
\* directory with a segment an earlier run left, or (see Init) the output
\* directory with a directory where the final output is to go
PipelineTrees ==
    LET left == [dir |-> RootDir, name |-> SegmentFileName(2, HostSpeaker)]
    IN  { <<>>, [p \in {left} |-> TtsFile(left, 0)] }

\* the scripts generate_podcast_audio is called with
BatchScripts ==
    { JsonLoads(ScriptThreeTurns).val.v, JsonLoads(ScriptNullText).val.v,
      JsonLoads(ScriptAllBlank).val.v }

Init ==
    /\ fs \in PipelineTrees
    /\ listing \in Enumerations(DOMAIN fs)
    /\ \/ dirs = { p.dir : p \in DOMAIN fs }
       \/ fs = <<>> /\ dirs = {RootDir, FinalAsDir}
    /\ call = [op |-> "none", dir |-> RootDir, out |-> <<>>]
    /\ res = NoResult
    /\ reads = {}
    /\ appended = <<>>
    /\ restitched = FALSE
    /\ tts = NoTts
    /\ ParseIdle
    /\ PipeIdle

Next ==
    \/ ClickGenerate
    \/ RunPodcastPipeline
    \/ \E script \in BatchScripts : GeneratePodcastAudio(script)
    \/ \E a \in 1..Len(Agents), has_text, final, saved \in BOOLEAN :
        \E reply \in Agents[a].replies : RunnerEvent(a, reply, has_text, final, saved)
    \/ \E final \in BOOLEAN : OtherEvent(ResearchReply, final)
    \/ RunnerEnds
    \/ RunnerRaises
    \/ \E read_ok \in BOOLEAN : Reconcile(read_ok)
    \/ ParseScript
    \/ \E outcome \in TtsOutcomes : SynthesizeTurn(outcome)
    \/ StitchStage
    \/ ReturnBatch
    \/ CliStitch
    \/ CliCancel
    \/ CliExit
    \/ Poll
    \/ ThreadEnds
    \/ Transfer

Spec == Init /\ [][Next]_vars

-----------------------------------------------------------------------------
(* The segment store and the stitcher, called as tools *)

\* the trees a run may start from
InitialTrees ==
    UNION { { f \in [S -> UNION { LeftoverFiles(p) : p \in S }] :
                \A p \in S : f[p] \in LeftoverFiles(p) } :
            S \in { T \in SUBSET SegmentPaths : Cardinality(T) <= MaxFiles } }

StoreInit ==
    /\ fs \in InitialTrees
    /\ listing \in Enumerations(DOMAIN fs)
    /\ dirs \in { D \in SUBSET Dirs :
                    /\ \A p \in DOMAIN fs : p.dir \in D
                    /\ D # {} => RootDir \in D }
    /\ call = [op |-> "none", dir |-> RootDir, out |-> <<>>]
    /\ res = NoResult
    /\ reads = {}
    /\ appended = <<>>
    /\ restitched = FALSE
    /\ tts = NoTts

\* the segment is one of SegmentPaths and the tree stays within the bounds
WithinBounds(d, turn) ==
    LET p == [dir |-> d, name |-> SegmentFileName(turn.idx, turn.speaker)]
    IN  /\ p \in SegmentPaths
        /\ NextGen(fs, p) <= MaxGen
        /\ p \in DOMAIN fs \/ Cardinality(SegmentFilesOf(fs)) < MaxFiles

StitchNext ==
    \/ \E out \in OutputNames :
            Stitch(RootDir, out) /\ UNCHANGED <<parseVars, pipeVars>>
    \/ \E d \in Dirs, turn \in SegmentTurns, outcome \in {"ok", "tts_error"} :
            /\ WithinBounds(d, turn)
            /\ Persist(d, turn, outcome)
            /\ UNCHANGED <<parseVars, pipeVars>>

StitchInit == StoreInit /\ ParseIdle /\ PipeIdle

SpecStitch == StitchInit /\ [][StitchNext]_vars

-----------------------------------------------------------------------------
(* parse_script_json, called on a text and on the same text inside a fence *)

\* the characters of the texts: ` " [ ] space newline
ParseAlphabet == {96, 34, 91, 93, 32, 10}

TextsUpTo(n) == UNION { [1..k -> ParseAlphabet] : k \in 0..n }

\* the text inside a markdown code fence: the opening line, the text, "```"
Fenced(opening, t) == opening \o <<10>> \o t \o <<10>> \o Fence

\* the tree is empty and no tool was called
StoreIdle ==
    /\ dirs = {}
    /\ fs = <<>>
    /\ listing = <<>>
    /\ call = [op |-> "none", dir |-> RootDir, out |-> <<>>]
    /\ res = NoResult
    /\ reads = {}
    /\ appended = <<>>
    /\ restitched = FALSE
    /\ tts = NoTts

ParseInit ==
    /\ StoreIdle
    /\ ptext \in TextsUpTo(MaxTextLen)
    /\ pfence = <<>>
    /\ pplain = NotParsed
    /\ pfenced = NotParsed
    /\ PipeIdle

ParseBoth(opening) ==
    /\ pfence = <<>>
    /\ pfence' = opening
    /\ pplain' = ParseScriptJson(ptext)
    /\ pfenced' = ParseScriptJson(Fenced(opening, ptext))
    /\ UNCHANGED ptext
    /\ UNCHANGED <<stitchVars, pipeVars>>

ParseNext == \E opening \in {Fence, JsonFence} : ParseBoth(opening)

SpecParse == ParseInit /\ [][ParseNext]_vars

-----------------------------------------------------------------------------
(* Properties of the segment store and the stitcher *)

\* the destination of the last stitch call
FinalOutputPath == [dir |-> call.dir, name |-> call.out]

\* the segments the last stitch call discovered: the segment_*.wav files under
\* its directory, the destination itself left out
Discovered ==
    { p \in DOMAIN fs : /\ MatchesSegmentPattern(p.name)
                        /\ InTree(p.dir, call.dir)
                        /\ p # FinalOutputPath }

\* a segment that opens, has channels and a frame rate: it is read and appended
\* without an error
Processable(c) == c.ok /\ c.nch > 0 /\ c.rate > 0

ValidSegments == { p \in Discovered : Processable(fs[p]) }

ListingPosition(p) == CHOOSE i \in 1..Len(listing) : listing[i] = p

\* p comes before q in the sorted order: by name, the filesystem's order for
\* equal names
SortsBefore(p, q) ==
    \/ StrLess(p.name, q.name)
    \/ p.name = q.name /\ ListingPosition(p) < ListingPosition(q)

FormatOf(c) == <<c.rate, c.nch, c.width>>

StitchSucceeded == call.op = "stitch" /\ res.status = "success"

\* C1: the frames are appended in ascending numeric order of the index embedded
\* in each segment's file name, for every set of discovered segment files.
C1_AppendedInIndexOrder ==
    call.op = "stitch" =>
        \A i, j \in 1..Len(appended) :
            i < j => EmbeddedIndex(appended[i].name) <= EmbeddedIndex(appended[j].name)

\* C2: after a successful stitch the output's sample rate, channel count and
\* sample width are those of the first valid segment in sorted order.
C2_FormatOfFirstValid ==
    StitchSucceeded =>
        \E p \in ValidSegments :
            /\ \A q \in ValidSegments \ {p} : SortsBefore(p, q)
            /\ FormatOf(fs[res.output_path]) = FormatOf(fs[p])

\* a successful stitch that skipped a malformed segment sorted before the first
\* valid one
C2_Witness ==
    /\ StitchSucceeded
    /\ \E m \in Discovered \ ValidSegments :
            \A q \in ValidSegments : SortsBefore(m, q)

C4_RestitchIdempotent ==
    [][(call.op = "stitch" /\ call'.op = "stitch" /\ call' = call) =>
            /\ res' = res
            /\ [dir |-> call.dir, name |-> call.out] \notin reads'
            /\ fs' = fs]_stitchVars

\* a successful stitch repeated, under an output name that matches segment_*.wav
C4_Witness ==
    /\ StitchSucceeded
    /\ restitched
    /\ MatchesSegmentPattern(call.out)
    /\ res.num_segments >= 1

-----------------------------------------------------------------------------
(* Properties of parse_script_json *)

\* C7: for every JSON text J, parse_script_json returns for J wrapped in a code
\* fence (an opening fence line, J, a closing ``` line) what it returns for J.
C7_FencedParsesAlike ==
    (pfence # <<>> /\ JsonLoads(ptext).ok) => pfenced = pplain

\* a JSON text that is a list with an item was parsed bare and inside ```json
C7_Witness ==
    /\ pfence = JsonFence
    /\ JsonLoads(ptext).ok
    /\ pplain.ok /\ pplain.val.t = "list" /\ pplain.val.v # <<>>
    /\ pfenced.ok

-----------------------------------------------------------------------------
(* Properties of the drivers *)

\* the text stages and reconciliation are over
PastTextStages == pc \notin {"idle", "events", "reconcile"}

\* the run has come to its end without raising
Returned == pc \in {"returned", "done", "shown", "exited"} /\ exc = ""

StageKeys == {"research_data", "summary", "script"}

\* the turn at position i (from 0) of the script is a dict whose text is blank
IsBlankTurn(i) ==
    LET e == script_entries[i + 1]
        text == DictGet(e.v, TextKey, JStr(<<>>))
    IN  e.t = "dict" /\ text.t = "str" /\ Strip(text.v) = <<>>

\* the positions the loop has passed
Visited == 0..(turn_idx - 1)

BlankTurns == { i \in Visited : IsBlankTurn(i) }

\* the segment files this run wrote (an earlier run's files are writing 0)
WrittenNow == { p \in DOMAIN fs : MatchesSegmentPattern(p.name) /\ fs[p].gen > 0 }

\* C5: a script turn whose text is empty or whitespace-only causes no call of
\* generate_audio_segment, leaves no segment file, and is counted neither among
\* the generated segments nor among the errors.
C5_BlankTurnSkipped ==
    /\ \A i \in BlankTurns :
        /\ \A k \in DOMAIN tts_calls : tts_calls[k].segment_index # i
        /\ \A p \in WrittenNow : EmbeddedIndex(p.name) # i
        /\ \A k \in DOMAIN generated_files : EmbeddedIndex(generated_files[k].name) # i
        /\ \A k \in DOMAIN audio_errors : audio_errors[k].segment_index # i
    /\ Len(generated_files) + Len(audio_errors) = turn_idx - Cardinality(BlankTurns)
    /\ Len(results.audio_files) <= turn_idx - Cardinality(BlankTurns)
    /\ batch.total_segments + Len(batch.errors) <= turn_idx - Cardinality(BlankTurns)

\* a script with a whitespace-only turn between two spoken turns was synthesized
\* and stitched
C5_Witness ==
    /\ driver = "ui"
    /\ Returned
    /\ BlankTurns = {1}
    /\ Len(tts_calls) = 2
    /\ results.final_podcast # NoPath

\* C6 as stated: for each of research_data, summary and script, if live capture
\* left the artifact empty when the event stream ended and the session store
\* holds a non-empty value under the key, the final results hold that value.
C6_FallbackAlways ==
    [][ /\ (pc = "reconcile" /\ pc' = "audio") =>
            \A key \in StageKeys :
                (results[key] = <<>> /\ session_state[key] # <<>>)
                    => results'[key] = session_state[key]
        /\ (driver = "ui" /\ PastTextStages) =>
            /\ \A key \in StageKeys : results'[key] = results[key]
            /\ session_state' = session_state ]_vars

\* C6, amended: the same, provided the reconciliation read (get_session) does
\* not raise; when it raises, the artifact stays unset.
C6_FallbackWhenRead ==
    [][ /\ (pc = "reconcile" /\ pc' = "audio" /\ ~sync_failed') =>
            \A key \in StageKeys :
                (results[key] = <<>> /\ session_state[key] # <<>>)
                    => results'[key] = session_state[key]
        /\ (pc = "reconcile" /\ pc' = "audio" /\ sync_failed') =>
            \A key \in StageKeys : results'[key] = results[key]
        /\ (driver = "ui" /\ PastTextStages) =>
            /\ \A key \in StageKeys : results'[key] = results[key]
            /\ session_state' = session_state ]_vars

\* the script was not captured live (no event part carried it), the session
\* store held it, and the run went on to synthesize it
C6_Witness ==
    /\ driver = "ui"
    /\ pc = "shown"
    /\ ~sync_failed
    /\ nevents = 1
    /\ session_state.script = ScriptThreeTurns
    /\ results.script = ScriptThreeTurns
    /\ ui.script = ScriptThreeTurns
    /\ tts_calls # <<>>

\* no script was produced: none in results (run_pipeline_async), none under the
\* scriptwriter's output_key (run_podcast_pipeline, which keeps no results)
ScriptUnset ==
    \/ driver = "ui" /\ results.script = <<>>
    \/ driver = "cli" /\ session_state.script = <<>>

\* C8: from either entry point, if the script is unset after the text stages
\* and reconciliation, generate_audio_segment is not called and
\* stitch_audio_segments is not called.
C8_NoAudioWithoutScript ==
    (PastTextStages /\ ScriptUnset) => (tts_calls = <<>> /\ stitch_calls = 0)

\* the script text of results does not parse
ParseFails == results.script # <<>> /\ ~ParseScriptJson(results.script).ok

\* C9: when the script text fails JSON parsing, the run records a script format
\* error that carries the parser's message, calls neither
\* generate_audio_segment nor stitch_audio_segments, and the research, summary
\* and script texts it had are kept and handed to st.session_state.
C9_ParseFailure ==
    /\ [](( driver = "ui" /\ Returned /\ ParseFails) =>
            /\ results.audio_error.kind = "parse"
            /\ results.audio_error.msg = ParseScriptJson(results.script).msg
            /\ results.audio_error.pos = ParseScriptJson(results.script).pos
            /\ tts_calls = <<>>
            /\ stitch_calls = 0
            /\ results.final_podcast = NoPath
            /\ pc = "shown" =>
                /\ ui.research_data = results.research_data
                /\ ui.summary = results.summary
                /\ ui.script = results.script
                /\ ui.pipeline_error = results.audio_error
                /\ ui.pipeline_complete)
    /\ [][ (driver = "ui" /\ PastTextStages) =>
                \A key \in StageKeys : results'[key] = results[key] ]_vars

\* the scriptwriter's reply was cut off; research, summary and the script text
\* reached st.session_state with the parser's message
C9_Witness ==
    /\ driver = "ui"
    /\ pc = "shown"
    /\ results.script = ScriptCutOff
    /\ results.audio_error.msg = "Expecting ',' delimiter"
    /\ results.audio_error.pos = 18
    /\ ui.research_data # <<>>
    /\ ui.summary # <<>>
    /\ ui.script = ScriptCutOff

\* the file or the error collected for the call of segment index i
Recorded(i) ==
    \/ \E k \in DOMAIN generated_files : EmbeddedIndex(generated_files[k].name) = i
    \/ \E k \in DOMAIN audio_errors : audio_errors[k].segment_index = i

\* C10: the turns are visited in strictly ascending order and each non-empty
\* turn is passed its 0-based position as segment index; a failed turn is
\* recorded as an error of that turn and every later turn is still attempted.
C10_AscendingNoAbort ==
    /\ \A j, k \in DOMAIN tts_calls :
        j < k => tts_calls[j].segment_index < tts_calls[k].segment_index
    /\ \A k \in DOMAIN tts_calls :
        LET i == tts_calls[k].segment_index
            e == script_entries[i + 1]
        IN  /\ i \in Visited
            /\ ~IsBlankTurn(i)
            /\ tts_calls[k].text = DictGet(e.v, TextKey, JStr(<<>>)).v
            /\ tts_calls[k].speaker = DictGet(e.v, SpeakerKey, JStr(HostSpeaker)).v
            /\ Recorded(i)
    /\ \A i \in Visited \ BlankTurns : \E k \in DOMAIN tts_calls : tts_calls[k].segment_index = i
    /\ Len(generated_files) + Len(audio_errors) = Len(tts_calls)
    /\ (Returned /\ driver \in {"ui", "batch"}) => turn_idx = Len(script_entries)

\* the first turn failed, its error was recorded, and the third turn was
\* synthesized all the same
C10_Witness ==
    /\ Returned
    /\ Len(tts_calls) = 2
    /\ tts_calls[1].segment_index = 0
    /\ tts_calls[2].segment_index = 2
    /\ Len(audio_errors) = 1
    /\ audio_errors[1].segment_index = 0
    /\ Len(generated_files) = 1
    /\ EmbeddedIndex(generated_files[1].name) = 2

\* the loop went over a script with turns and no segment came of it
ZeroSegments ==
    /\ Returned
    /\ driver \in {"ui", "batch"}
    /\ script_entries # <<>>
    /\ turn_idx = Len(script_entries)
    /\ generated_files = <<>>

\* the run's report of the synthesis errors: _audio_error of results, or the
\* dict of generate_podcast_audio with a status that is not "success"
HasErrorReport ==
    IF driver = "batch" THEN batch.status \in {"error", "partial"}
    ELSE results.audio_error.kind = "segments"

\* C11: when the synthesis produces no segment, because every turn was empty or
\* because every turn failed, it ends with a report of the collected errors
\* and stitch_audio_segments is not called in that run.
C11_ZeroSegmentsReported ==
    ZeroSegments => (HasErrorReport /\ stitch_calls = 0)

\* the place of a text stage in Research, Summarize, Script
StageNo(key) ==
    IF key = "research_data" THEN 1 ELSE IF key = "summary" THEN 2 ELSE 3

\* the text stage the runner has reached
TextStage == StageNo(Agents[author_at].output_key)

\* the places of run_pipeline_async in the order of the stages
PcRank ==
    [p \in {"idle", "events", "reconcile", "audio", "loop", "returned", "raised",
            "done", "shown"} |->
        IF p = "idle" THEN 0 ELSE IF p = "events" THEN 1
        ELSE IF p = "reconcile" THEN 2 ELSE IF p = "audio" THEN 3
        ELSE IF p = "loop" THEN 4 ELSE IF p \in {"returned", "raised"} THEN 5
        ELSE IF p = "done" THEN 6 ELSE 7]

C13_ErrorKeepsArtifacts ==
    /\ (driver = "ui" /\ pc = "shown" /\ exc = "runner") =>
            /\ results.status = "error"
            /\ ui.pipeline_error = [NoError EXCEPT !.kind = "exception", !.msg = "runner"]
            /\ ui.research_data = results.research_data
            /\ ui.summary = results.summary
            /\ ui.script = results.script
    /\ (driver = "cli" /\ pc = "exited" /\ exc = "runner") =>
            /\ cli.exit_code = 1
            /\ cli.error = "runner"
            /\ cli.result.final_response = cli.final_response

\* C14: every per-turn error recorded in the loop is still in the error report
\* the run returns, whether the stitch after it succeeds or fails.
C14_TurnErrorsKept ==
    (driver = "ui" /\ Returned /\ turn_idx = Len(script_entries) /\ audio_errors # <<>>)
        => (results.audio_error.kind = "segments"
            /\ results.audio_error.errors = audio_errors)

\* the segments a stitch into (call'.dir, call'.out) finds in the tree before it
DiscoveredBefore ==
    { p \in DOMAIN fs : /\ MatchesSegmentPattern(p.name)
                        /\ InTree(p.dir, call'.dir)
                        /\ p # [dir |-> call'.dir, name |-> call'.out] }

\* C15: a stitch call on an existing directory whose discovered set (the
\* segment_*.wav files below it, the destination left out) is empty fails with
\* the no-segments error and has not opened the destination: the tree is as before.
C15_NoSegmentsBeforeOpen ==
    [][(call'.op = "stitch" /\ call'.dir \in dirs /\ DiscoveredBefore = {}) =>
            /\ res'.status = "error"
            /\ res'.error = "no_segments"
            /\ fs' = fs]_stitchVars

\* C16: a stitch call that returns an error leaves every file that existed
\* before it as it was: the segment files and an earlier final output.
C16_ErrorKeepsFiles ==
    [][(call'.op = "stitch" /\ res'.status = "error") =>
            \A p \in DOMAIN fs : p \in DOMAIN fs' /\ fs'[p] = fs[p]]_stitchVars

\* C17: a segment file in the tree is never modified, overwritten or deleted by
\* a later operation, be it a persist or a stitch.
C17_SegmentsImmutable ==
    [][\A p \in SegmentFilesOf(fs) : p \in DOMAIN fs' /\ fs'[p] = fs[p]]_stitchVars

\* C18: after a segment with an index of 1000 or more was persisted (it is
\* rejected or padded wider), the order of the segment file names of every
\* directory is the numeric order of their indices.
C18_WideIndexKeepsOrder ==
    (call.op = "generate" /\ tts.status = "success" /\ tts.segment_index >= 1000) =>
        \A p, q \in SegmentFilesOf(fs) :
            StrLess(p.name, q.name) => EmbeddedIndex(p.name) <= EmbeddedIndex(q.name)

\* C19: after a successful stitch every segment that was appended or counted
\* has the sample rate, channel count and sample width of the output.
C19_AppendedMatchFormat ==
    StitchSucceeded =>
        \A p \in { appended[i] : i \in 1..Len(appended) }
                    \cup { res.segment_files[i] : i \in 1..Len(res.segment_files) } :
            FormatOf(fs[p]) = FormatOf(fs[res.output_path])

\* C20: a run the user cancelled returns to its caller the artifacts accumulated
\* up to the cancellation, with the values they had then.
C20_CancelReturnsArtifacts ==
    (driver = "cli" /\ pc = "exited" /\ exc = "KeyboardInterrupt") =>
        cli.result.final_response = cli.final_response

-----------------------------------------------------------------------------
(* Properties of the event loop, the reconciliation and the two threads *)

\* the UI driver took an event from the runner in this step
UiEventStep == driver = "ui" /\ pc = "events" /\ nevents' = nevents + 1

\* key is the output key of the agent that authored the event now held
AuthoredFor(ev, key) ==
    \E a \in 1..Len(Agents) : Agents[a].name = ev.author /\ Agents[a].output_key = key

\* the text of a part without its <think> blocks and the white space around it
Cleaned(t) == Strip(RemoveThink(t))

\* C21: during one run each stage key is assigned at most once, and
\* once it is set its value never changes.
C21_WriteOnce ==
    [][driver = "ui" =>
        \A key \in StageKeys :
            results[key] # <<>> => results'[key] = results[key]]_vars

\* C22: an event's part sets its stage's artifact to its cleaned text when that
\* is not empty, replacing what was there, and changes no artifact otherwise; so
\* at the end of the stream each artifact is the last non-empty cleaned text.
C22_LatestSupersedes ==
    [][UiEventStep =>
        \A key \in StageKeys :
            results'[key] =
                IF AuthoredFor(last_event', key) /\ Cleaned(last_event'.text) # <<>>
                THEN Cleaned(last_event'.text)
                ELSE results[key]]_vars

\* a fenced script with reasoning in front replaced an earlier script
C22_Witness ==
    /\ driver = "ui"
    /\ pc = "events"
    /\ session_state.script = ScriptThreeTurns
    /\ last_event.author = ScriptwriterName
    /\ last_event.text = ScriptFenced
    /\ results.script = Cleaned(ScriptFenced)
    /\ results.script # ScriptFenced

\* C23: an event that is not final (a partial one) leaves the stage artifacts
\* and the CLI's final response as they were.
C23_PartialIgnored ==
    [][(pc = "events" /\ nevents' = nevents + 1 /\ ~last_event'.final) =>
            /\ \A key \in StageKeys : results'[key] = results[key]
            /\ cli'.final_response = cli.final_response]_vars

\* C28: an event changes at most the artifact of the stage whose agent authored
\* it; an event of any other author changes none.
C28_OnlyOwnStage ==
    [][UiEventStep =>
        \A key \in StageKeys :
            results'[key] # results[key] => AuthoredFor(last_event', key)]_vars

\* an event of the pipeline agent itself, with text, after the research was kept
C28_Witness ==
    /\ driver = "ui"
    /\ pc = "events"
    /\ last_event.author = PipelineName
    /\ Cleaned(last_event.text) # <<>>
    /\ results.research_data # <<>>
    /\ results.summary = <<>>
    /\ results.script = <<>>

-----------------------------------------------------------------------------
(* Further properties of the stitcher *)

\* C24: a stitch call always returns, with status success or error, and a
\* success means that a segment set the output format and was written.
C24_AlwaysReturns ==
    call.op = "stitch" =>
        /\ res.status \in {"success", "error"}
        /\ res.status = "success" =>
                /\ appended # <<>>
                /\ fs[res.output_path].ok
                /\ FormatOf(fs[res.output_path]) = FormatOf(fs[appended[1]])

\* a stitch in which every segment failed to open: what close() raised came back
\* as the error dict
C24_Witness ==
    /\ call.op = "stitch"
    /\ reads # {}
    /\ res.status = "error"
    /\ res.error = "internal"

RECURSIVE TicksOf(_)
\* the sum of nframes / framerate over the paths of s, in 1/48000 s
TicksOf(s) ==
    IF s = <<>> THEN 0
    ELSE fs[s[1]].nframes * (48000 \div fs[s[1]].rate) + TicksOf(Tail(s))

\* C25: in a successful result num_segments is the length of segment_files,
\* segment_files is the segments whose frames were appended, in that order, and
\* the duration is summed over them.
C25_CountsMatchAppended ==
    StitchSucceeded =>
        /\ res.num_segments = Len(res.segment_files)
        /\ res.segment_files = appended
        /\ res.total_duration_cs = RoundedCs(TicksOf(appended))

\* C26: a stitch opens every segment_*.wav file below its directory except the
\* destination, whoever wrote it and in whatever subdirectory, and appends
\* every one of them that is valid.
C26_WholeTree ==
    call.op = "stitch" =>
        /\ reads = Discovered
        /\ ValidSegments \subseteq { appended[i] : i \in 1..Len(appended) }

\* a stitch of a segment an earlier run left in a subdirectory and of a segment
\* written in this run
C26_Witness ==
    /\ StitchSucceeded
    /\ \E i, j \in 1..Len(appended) :
            /\ appended[i].dir = SubDir
            /\ fs[appended[i]].gen = 0
            /\ appended[j].dir = RootDir
            /\ fs[appended[j]].gen = 1

-----------------------------------------------------------------------------
(* Further properties of the drivers *)

\* val is no array of objects whose text is a string: it is no array, or an
\* element is no object, or an element's text is no string
NotTurns(val) ==
    \/ val.t # "list"
    \/ \E i \in 1..Len(val.v) :
            \/ val.v[i].t # "dict"
            \/ \E j \in 1..Len(val.v[i].v) :
                    val.v[i].v[j].k = TextKey /\ val.v[i].v[j].x.t # "str"

\* the script text of results is JSON, but not of that shape
ShapeFails ==
    /\ results.script # <<>>
    /\ ParseScriptJson(results.script).ok
    /\ NotTurns(ParseScriptJson(results.script).val)

\* C27: a script that is valid JSON of the wrong shape is a script format error
\* that stops the audio path only: no segment is synthesized, the run does not
\* end in the error status, and the texts reach st.session_state.
C27_ShapeErrorNotFatal ==
    (driver = "ui" /\ pc \in {"done", "shown"} /\ exc # "runner" /\ ShapeFails) =>
        /\ tts_calls = <<>>
        /\ results.status = "complete"
        /\ results.audio_error.kind = "parse"
        /\ pc = "shown" => (ui.script = results.script /\ ui.pipeline_complete)

\* C29: the reconciliation leaves every artifact the event loop set as it is,
\* whatever the session store holds under its key; when the read raises, all
\* three artifacts stay as they are and the run goes on to the audio stage.
C29_ReconcileKeepsLive ==
    [][(driver = "ui" /\ pc = "reconcile" /\ pc' # pc) =>
            /\ \A key \in StageKeys :
                    results[key] # <<>> => results'[key] = results[key]
            /\ sync_failed' =>
                    /\ \A key \in StageKeys : results'[key] = results[key]
                    /\ pc' = "audio"
                    /\ exc' = ""]_vars

\* the store was read and holds another script than the one the loop captured
C29_Witness ==
    /\ driver = "ui"
    /\ pc = "audio"
    /\ ~sync_failed
    /\ results.script # <<>>
    /\ session_state.script # <<>>
    /\ session_state.script # results.script

\* C30: the UI thread copies the results into st.session_state only when the
\* pipeline thread has ended, and then _status is complete or error; while the
\* thread is alive the UI thread takes the thoughts list only, and it never
\* writes to the results mapping.
C30_CopyAfterThreadEnd ==
    [][(driver = "ui" /\ driver' = "ui" /\ ui' # ui) =>
            /\ results' = results
            /\ IF pc \in {"events", "reconcile", "audio", "loop", "returned", "raised"}
               THEN ui' = [ui EXCEPT !.thoughts = "shared"]
               ELSE pc = "done" /\ results.status \in {"complete", "error"}]_vars

\* the loop polled the thoughts while the thread ran, and the results were
\* copied after its end
C30_Witness ==
    /\ driver = "ui"
    /\ pc = "shown"
    /\ ui.thoughts = "shared"
    /\ results.status = "complete"
    /\ ui.research_data # <<>>
    /\ ui.final_podcast # NoPath

====
